---- MODULE Spec2Model ----
(***************************************************************************)
(* Cubed-sphere domain decomposition: partitioner.py of                    *)
(* groupH_cubedsphere_decomposition.                                       *)
(*                                                                         *)
(* The state is one TilePartitioner wrapped by one CubedSpherePartitioner: *)
(* the layout given at construction, the two lru_cache memo tables of      *)
(* _cached_boundary, and the caller's side: the last call, the outcome as  *)
(* it was returned, the objects the caller holds and may write to, and the *)
(* call whose result the caller last wrote to.                             *)
(*                                                                         *)
(* Python tuples are 0-based, TLA+ tuples 1-based: layout[0] is L0 and     *)
(* layout[1] is L1 below; subtile_index[n] is si[n+1].                     *)
(***************************************************************************)
EXTENDS Integers, Sequences, FiniteSets, TLC

VARIABLES layout, tileCache, cubeCache, call, returned, held, ncalls, wrote

vars == <<layout, tileCache, cubeCache, call, returned, held, ncalls, wrote>>

(* ------------------------------ bounds --------------------------------- *)
MaxLayout == 4

MaxExtent == 4

CacheMaxLayout == 2

MaxQueries == 2

CacheMaxRank == 1

MaxTotalRanks == 13

MaxRotations == 4

(* ----------------------------- constants ------------------------------- *)
WEST == "WEST"

EAST == "EAST"

NORTH == "NORTH"

SOUTH == "SOUTH"

NORTHWEST == "NORTHWEST"

NORTHEAST == "NORTHEAST"

SOUTHWEST == "SOUTHWEST"

SOUTHEAST == "SOUTHEAST"

EdgeTypes == {WEST, EAST, NORTH, SOUTH}

CornerTypes == {NORTHWEST, NORTHEAST, SOUTHWEST, SOUTHEAST}

BoundaryTypes == EdgeTypes \cup CornerTypes

L0 == layout[1]

L1 == layout[2]

(* ------------------------- Python list helpers ------------------------- *)
Min(a, b) == IF a < b THEN a ELSE b

\* seq[start:end] for 0 <= start, 0 <= end (indices are clamped to the length)
PySlice(seq, start, end) ==
  LET hi == Min(end, Len(seq))
  IN  IF start >= hi THEN << >>
      ELSE [n \in 1..(hi - start) |-> seq[start + n]]

\* the reversed list, as np.fliplr gives for each row
Reversed(seq) == [n \in 1..Len(seq) |-> seq[Len(seq) + 1 - n]]

\* np.cumsum
RECURSIVE SumTo(_, _)
SumTo(seq, n) == IF n = 0 THEN 0 ELSE SumTo(seq, n - 1) + seq[n]

cumsum(seq) == [n \in 1..Len(seq) |-> SumTo(seq, n)]

(* --------------------------- rank arithmetic --------------------------- *)
\* get_tile_index raises ValueError exactly when this holds
get_tile_index_raises(total_ranks) == total_ranks % 6 # 0

\* get_tile_index dividing by 6 where it should divide by ranks_per_tile
get_tile_index_by_six(rank, total_ranks) == rank \div 6

\* the value get_tile_index returns when it does not raise
get_tile_index(rank, total_ranks) ==
  LET ranks_per_tile == total_ranks \div 6
  IN  rank \div ranks_per_tile

subtile_index(rank, ranks_per_tile, lay) ==
  LET within_tile_rank == rank % ranks_per_tile
      j == within_tile_rank \div lay[2]
      i == within_tile_rank % lay[1]
      k == within_tile_rank \div lay[1]
      l == within_tile_rank % lay[2]
  IN  <<j, i, k, l>>

on_tile_left(si) == si[2] = 0

on_tile_right(si, lay) == si[2] = lay[1] - 1

on_tile_top(si, lay) == si[3] = lay[2] - 1

on_tile_bottom(si) == si[3] = 0

is_even(value) == value % 2 = 0

\* What a module-level function hands back: its value, or the exception
\* it raises.
Value(v) == [exc |-> "", value |-> v]

Raises(exc) == [exc |-> exc, value |-> 0]

\* rank_array[np.where(rotated_rank_array == rank)][0] for np.rot90 of the
\* rows x columns array np.arange(total_ranks).reshape(layout): the
\* rotated array has rank at [columns - 1 - rank % columns][rank // columns],
\* and that index pair is then read in the array that was not rotated
rot90_lookup(rank, rows, columns) ==
  IF rank \notin 0..(rows * columns - 1) THEN Raises("IndexError")
  ELSE IF columns - 1 - (rank % columns) >= rows \/ rank \div columns >= columns
    THEN Raises("IndexError")
  ELSE Value((columns - 1 - (rank % columns)) * columns + rank \div columns)

\* rotate_subtile_rank that takes the rotation count modulo 4
rotate_subtile_rank_mod_4(rank, lay, n_clockwise_rotations) ==
  IF n_clockwise_rotations % 4 = 0 THEN Value(rank)
  ELSE IF n_clockwise_rotations % 4 = 1 THEN rot90_lookup(rank, lay[1], lay[2])
  ELSE Raises("NotImplementedError")

rotate_subtile_rank(rank, lay, n_clockwise_rotations) ==
  IF n_clockwise_rotations = 0 THEN Value(rank)
  ELSE IF n_clockwise_rotations = 1 THEN rot90_lookup(rank, lay[1], lay[2])
  ELSE Raises("NotImplementedError")

\* the index pair np.where(transform_func(rank_array) == rank) finds for the
\* rows x columns array np.arange(total_ranks).reshape(layout): np.fliplr
\* mirrors the columns, np.flipud the rows, np.transpose swaps the two axes
where_transformed(transform_func, rank, rows, columns) ==
  CASE transform_func = "fliplr" ->
         <<rank \div columns, columns - 1 - (rank % columns)>>
    [] transform_func = "flipud" ->
         <<rows - 1 - (rank \div columns), rank % columns>>
    [] transform_func = "transpose" -> <<rank % columns, rank \div columns>>

\* rank_array[index][0]: the index pair read in the array that was not
\* transformed
rank_array_at(index, rows, columns) ==
  IF index[1] >= rows \/ index[2] >= columns THEN Raises("IndexError")
  ELSE Value(index[1] * columns + index[2])

transform_subtile_rank(transform_func, rank, lay) ==
  IF rank \notin 0..(lay[1] * lay[2] - 1) THEN Raises("IndexError")
  ELSE rank_array_at(where_transformed(transform_func, rank, lay[1], lay[2]),
                     lay[1], lay[2])

fliplr_subtile_rank(rank, lay) == transform_subtile_rank("fliplr", rank, lay)

(* ------------------------- boundary descriptors ------------------------ *)
SimpleBoundary(boundary_type, from_rank, to_rank, n_clockwise_rotations) ==
  [boundary_type |-> boundary_type, from_rank |-> from_rank,
   to_rank |-> to_rank, n_clockwise_rotations |-> n_clockwise_rotations]

\* An object reference: cell names the memo-table slot the object lives in,
\* NoCell an object owned by whoever holds the reference.
NoCell == << >>

Obj(cell, val) == [cell |-> cell, val |-> val]

\* handing out the reference itself instead of a copy
copy_alias(obj) == obj

\* copy.copy of a SimpleBoundary: a new object with the same (int) fields
copy_copy(obj) == Obj(NoCell, obj.val)

\* obj.to_rank = v : the write lands in the object the reference points to
set_to_rank(cache, obj, v) ==
  [cache |-> IF obj.cell \in DOMAIN cache
               THEN [cache EXCEPT ![obj.cell].to_rank = v] ELSE cache,
   obj |-> [obj EXCEPT !.val.to_rank = v]]

set_rotations(cache, obj, v) ==
  [cache |-> IF obj.cell \in DOMAIN cache
               THEN [cache EXCEPT ![obj.cell].n_clockwise_rotations = v]
               ELSE cache,
   obj |-> [obj EXCEPT !.val.n_clockwise_rotations = v]]

(* ---------------------------- TilePartitioner -------------------------- *)
Tile_total_ranks == L0 * L1

Tile_subtile_index(rank) == subtile_index(rank, Tile_total_ranks, layout)

Tile_on_tile_top(rank) == on_tile_top(Tile_subtile_index(rank), layout)

Tile_on_tile_bottom(rank) == on_tile_bottom(Tile_subtile_index(rank))

Tile_on_tile_left(rank) == on_tile_left(Tile_subtile_index(rank))

Tile_on_tile_right(rank) == on_tile_right(Tile_subtile_index(rank), layout)

\* the rank is on the face edge the direction crosses, as the edge methods
\* test it
OnEdge(boundary_type, rank) ==
  CASE boundary_type = WEST -> Tile_on_tile_left(rank)
    [] boundary_type = EAST -> Tile_on_tile_right(rank)
    [] boundary_type = NORTH -> Tile_on_tile_top(rank)
    [] boundary_type = SOUTH -> Tile_on_tile_bottom(rank)

Tile_left_edge(rank) ==
  SimpleBoundary(WEST, rank,
                 IF Tile_on_tile_left(rank) THEN rank + L0 - 1 ELSE rank - 1,
                 0)

Tile_right_edge(rank) ==
  SimpleBoundary(EAST, rank,
                 IF Tile_on_tile_right(rank) THEN rank - L0 + 1 ELSE rank + 1,
                 0)

Tile_top_edge(rank) ==
  SimpleBoundary(NORTH, rank,
                 IF Tile_on_tile_top(rank) THEN rank - (L1 - 1) * L0
                 ELSE rank + L1,
                 0)

Tile_bottom_edge(rank) ==
  SimpleBoundary(SOUTH, rank,
                 IF Tile_on_tile_bottom(rank) THEN rank + (L1 - 1) * L0
                 ELSE rank - L1,
                 0)

\* the four edge methods, named by the direction they serve
Tile_edge(edge_func, rank) ==
  CASE edge_func = WEST -> Tile_left_edge(rank)
    [] edge_func = EAST -> Tile_right_edge(rank)
    [] edge_func = NORTH -> Tile_top_edge(rank)
    [] edge_func = SOUTH -> Tile_bottom_edge(rank)

\* _get_corner from edge_2 on: the rotations are summed, the target is edge_2's
corner_boundary(boundary_type, rank, edge_1, edge_2) ==
  LET rotations == edge_1.n_clockwise_rotations + edge_2.n_clockwise_rotations
  IN  SimpleBoundary(boundary_type, rank, edge_2.to_rank, rotations)

\* _get_corner from edge_1 on: edge_2 = edge_func_2(edge_1.to_rank)
corner_via(boundary_type, rank, edge_1, edge_func_2) ==
  corner_boundary(boundary_type, rank, edge_1,
                  Tile_edge(edge_func_2, edge_1.to_rank))

get_corner(boundary_type, rank, edge_func_1, edge_func_2) ==
  corner_via(boundary_type, rank, Tile_edge(edge_func_1, rank), edge_func_2)

\* the (edge_func_1, edge_func_2) pair each corner method passes to _get_corner
Tile_top_left_corner == <<WEST, NORTH>>

Tile_top_right_corner == <<EAST, NORTH>>

Tile_bottom_left_corner == <<WEST, SOUTH>>

Tile_bottom_right_corner == <<EAST, SOUTH>>

Tile_corner_funcs(boundary_type) ==
  CASE boundary_type = NORTHWEST -> Tile_top_left_corner
    [] boundary_type = NORTHEAST -> Tile_top_right_corner
    [] boundary_type = SOUTHWEST -> Tile_bottom_left_corner
    [] boundary_type = SOUTHEAST -> Tile_bottom_right_corner

\* the body of TilePartitioner._cached_boundary (what a cache miss computes)
Tile_dispatch(boundary_type, rank) ==
  IF boundary_type \in EdgeTypes THEN Tile_edge(boundary_type, rank)
  ELSE get_corner(boundary_type, rank, Tile_corner_funcs(boundary_type)[1],
                  Tile_corner_funcs(boundary_type)[2])

\* lru_cache stores the computed object v under key and hands it out
cache_store(cache, key, v) ==
  [cache |-> (key :> v) @@ cache, obj |-> Obj(key, v)]

\* functools.lru_cache(maxsize=None) around Tile_dispatch: a hit hands out
\* the stored object, a miss stores the computed one and hands it out
Tile_cached_boundary(cache, boundary_type, rank) ==
  IF <<boundary_type, rank>> \in DOMAIN cache
    THEN [cache |-> cache,
          obj |-> Obj(<<boundary_type, rank>>, cache[<<boundary_type, rank>>])]
    ELSE cache_store(cache, <<boundary_type, rank>>,
                     Tile_dispatch(boundary_type, rank))

\* boundary = copy.copy(cached); return boundary
copy_of_cached(c) == [cache |-> c.cache, obj |-> copy_copy(c.obj)]

Tile_boundary(cache, boundary_type, rank) ==
  copy_of_cached(Tile_cached_boundary(cache, boundary_type, rank))

(* ------------------------- CubedSpherePartitioner ---------------------- *)
Cube_total_ranks == 6 * Tile_total_ranks

Cube_tile_index(rank) == get_tile_index(rank, Cube_total_ranks)

Cube_tile_root_rank(rank) == Tile_total_ranks * (rank \div Tile_total_ranks)

\* What a call hands back: kind is "list" (a list of descriptors), "boundary"
\* (one descriptor), "none" (Python None) or "error" (an exception, named by
\* exc); cache is the tile memo table the call leaves behind.
Outcome(cache, kind, exc, items) ==
  [cache |-> cache, kind |-> kind, exc |-> exc, items |-> items]

\* layout[0] % layout[1] == 0 or layout[1] % layout[0] == 0
dividable == L0 % L1 = 0 \/ L1 % L0 = 0

\* numadd of the loop body of lr_boundary_seq / ul_boundary_seq, where
\* step is the axis length subtracted per position and den the divisor
numadd(pos, step, den) ==
  (((L0 * L1) - pos * step) \div den + 1)
    - ((((L0 * L1) - pos * step) - step) \div den + 1) + 1

\* the boundary_seq list of lr_boundary_seq
lr_boundary_seq_list ==
  IF dividable
    THEN [y \in 1..L1 |-> IF L0 >= L1 THEN L0 \div L1 ELSE 1]
    ELSE [n \in 1..L1 |->
            IF n = 1 THEN L0 \div L1 + 1 ELSE numadd(n - 1, L0, L1)]

\* Nboundary = boundary_seq[position]: IndexError past the end of the list
seq_at(boundary_seq, position) ==
  IF position + 1 > Len(boundary_seq)
    THEN [exc |-> "IndexError", Nboundary |-> 0, boundary_seq |-> << >>]
    ELSE [exc |-> "", Nboundary |-> boundary_seq[position + 1],
          boundary_seq |-> boundary_seq]

lr_boundary_seq(rank) ==
  seq_at(lr_boundary_seq_list, (rank % Tile_total_ranks) \div L0)

ul_boundary_seq_list ==
  IF dividable
    THEN [x \in 1..L0 |-> IF L1 >= L0 THEN L1 \div L0 ELSE 1]
    ELSE [n \in 1..L0 |->
            IF n = 1 THEN L1 \div L0 + 1 ELSE numadd(n - 1, L1, L0)]

ul_boundary_seq(rank) ==
  seq_at(ul_boundary_seq_list, (rank % Tile_total_ranks) \div L0)

\* np.cumsum(boundary_seq) // div
cumsum_div(cs, div) == [n \in 1..Len(cs) |-> cs[n] \div div]

\* cumsum_boundary_seq as lr_to_ranks and ul_to_ranks both compute it
cumsum_boundary_seq(boundary_seq) ==
  IF dividable
    THEN IF L1 \div L0 >= 1 THEN cumsum_div(cumsum(boundary_seq), L1 \div L0)
         ELSE cumsum(boundary_seq)
    ELSE cumsum([n \in 1..Len(boundary_seq) |-> boundary_seq[n] - 1])

\* to_ranks_pot of lr_to_ranks, before the flip
lr_to_ranks_pot(on_left, to_root_rank) ==
  [n \in 1..L0 |->
     IF on_left THEN to_root_rank + (L0 * (L1 - 1)) + (n - 1)
     ELSE to_root_rank + (n - 1)]

\* start of the slice lr_to_ranks takes, cs being cumsum_boundary_seq
lr_start(rank_position_y, cs) ==
  IF rank_position_y = 0 THEN 0
  ELSE IF dividable
         THEN IF L0 >= L1 THEN cs[rank_position_y]
              ELSE rank_position_y \div (L1 \div L0)
         ELSE cs[rank_position_y]

lr_end(rank_position_y, cs, start) ==
  IF rank_position_y = 0
    THEN IF dividable
           THEN IF L0 \div L1 >= 1 THEN cs[1] ELSE cs[1] \div (L1 \div L0)
           ELSE cs[1] + 1
    ELSE IF dividable
           THEN IF L0 >= L1 THEN cs[rank_position_y + 1] ELSE start + 1
           ELSE cs[rank_position_y + 1] + 1

\* to_ranks_seq = to_ranks_pot[start:end]
to_ranks_seq(to_ranks_pot, start, end) ==
  [exc |-> "", seq |-> PySlice(to_ranks_pot, start, end)]

lr_cut(rank_position_y, to_ranks_pot, cs) ==
  to_ranks_seq(to_ranks_pot, lr_start(rank_position_y, cs),
               lr_end(rank_position_y, cs, lr_start(rank_position_y, cs)))

\* lr_to_ranks without the np.fliplr of to_ranks_pot
lr_to_ranks_from_unflipped(rank, to_root_rank, bs) ==
  IF bs.exc # "" THEN [exc |-> bs.exc, seq |-> << >>]
  ELSE lr_cut((rank % Tile_total_ranks) \div L0,
              lr_to_ranks_pot(Tile_on_tile_left(rank), to_root_rank),
              cumsum_boundary_seq(bs.boundary_seq))

\* lr_to_ranks once lr_boundary_seq has returned bs
lr_to_ranks_from(rank, to_root_rank, bs) ==
  IF bs.exc # "" THEN [exc |-> bs.exc, seq |-> << >>]
  ELSE lr_cut((rank % Tile_total_ranks) \div L0,
              Reversed(lr_to_ranks_pot(Tile_on_tile_left(rank), to_root_rank)),
              cumsum_boundary_seq(bs.boundary_seq))

lr_to_ranks(rank, to_root_rank) ==
  lr_to_ranks_from(rank, to_root_rank, lr_boundary_seq(rank))

\* to_ranks_pot of ul_to_ranks, before the flip
ul_to_ranks_pot(on_top, to_root_rank) ==
  [n \in 1..L1 |->
     IF on_top THEN to_root_rank + L0 * (n - 1)
     ELSE to_root_rank + L0 * (n - 1) + L0 - 1]

ul_start(rank_position_x, cs) ==
  IF rank_position_x = 0 THEN 0
  ELSE IF dividable
         THEN IF L1 \div L0 > 1 THEN rank_position_x * (L1 \div L0)
              ELSE rank_position_x \div (L0 \div L1)
         ELSE cs[rank_position_x]

\* ul_end with the two axis counts of the ratio exchanged
ul_end_transposed(rank_position_x, cs, start) ==
  IF dividable
    THEN IF L0 \div L1 > 1 THEN start + (L0 \div L1) ELSE start + 1
    ELSE IF rank_position_x = 0 THEN cs[1] + 1
         ELSE cs[rank_position_x + 1] + 1

ul_end(rank_position_x, cs, start) ==
  IF dividable
    THEN IF L1 \div L0 > 1 THEN start + (L1 \div L0) ELSE start + 1
    ELSE IF rank_position_x = 0 THEN cs[1] + 1
         ELSE cs[rank_position_x + 1] + 1

ul_cut(rank_position_x, to_ranks_pot, cs) ==
  to_ranks_seq(to_ranks_pot, ul_start(rank_position_x, cs),
               ul_end(rank_position_x, cs, ul_start(rank_position_x, cs)))

ul_to_ranks_from(rank, to_root_rank, bs) ==
  IF bs.exc # "" THEN [exc |-> bs.exc, seq |-> << >>]
  ELSE ul_cut((rank % Tile_total_ranks) % L0,
              Reversed(ul_to_ranks_pot(Tile_on_tile_top(rank), to_root_rank)),
              cumsum_boundary_seq(bs.boundary_seq))

ul_to_ranks(rank, to_root_rank) ==
  ul_to_ranks_from(rank, to_root_rank, ul_boundary_seq(rank))

\* Which branch an edge method takes for a rank.  kind "seam": the rotated
\* seam, one descriptor per rank of to_ranks; kind "offset": the face
\* partitioner's descriptor moved by offset ranks, reduced when the sum is
\* below zero (below) or above the total; kind "tile": the face
\* partitioner's descriptor as it is.
Seam(to_ranks, rotations) ==
  [kind |-> "seam", to_ranks |-> to_ranks, rotations |-> rotations,
   offset |-> 0, below |-> FALSE]

Offset(offset, below) ==
  [kind |-> "offset", to_ranks |-> [exc |-> "", seq |-> << >>],
   rotations |-> 0, offset |-> offset, below |-> below]

InFace ==
  [kind |-> "tile", to_ranks |-> [exc |-> "", seq |-> << >>],
   rotations |-> 0, offset |-> 0, below |-> FALSE]

Cube_left_edge(rank) ==
  IF Tile_on_tile_left(rank)
    THEN IF is_even(Cube_tile_index(rank))
           THEN Seam(lr_to_ranks(rank,
                       Cube_tile_root_rank(
                         (rank - 2 * Tile_total_ranks) % Cube_total_ranks)),
                     1)
           ELSE Offset(-Tile_total_ranks, FALSE)
    ELSE InFace

Cube_right_edge(rank) ==
  IF Tile_on_tile_right(rank)
    THEN IF ~is_even(Cube_tile_index(rank))
           THEN Seam(lr_to_ranks(rank,
                       Cube_tile_root_rank(rank) + (2 * Tile_total_ranks)),
                     1)
           ELSE Offset(Tile_total_ranks, FALSE)
    ELSE InFace

\* _top_edge with the seam of an even face leading one face on instead of two
Cube_top_edge_one_face_on(rank) ==
  IF Tile_on_tile_top(rank)
    THEN IF is_even(Cube_tile_index(rank))
           THEN Seam(ul_to_ranks(rank,
                       (Cube_tile_index(rank) + 1) * Tile_total_ranks),
                     3)
           ELSE Offset(Tile_total_ranks, FALSE)
    ELSE InFace

Cube_top_edge(rank) ==
  IF Tile_on_tile_top(rank)
    THEN IF is_even(Cube_tile_index(rank))
           THEN Seam(ul_to_ranks(rank,
                       (Cube_tile_index(rank) + 2) * Tile_total_ranks),
                     3)
           ELSE Offset(Tile_total_ranks, FALSE)
    ELSE InFace

Cube_bottom_edge(rank) ==
  IF Tile_on_tile_bottom(rank) /\ ~is_even(Cube_tile_index(rank))
    THEN Seam(ul_to_ranks(rank,
                (Cube_tile_root_rank(rank) + 4 * Tile_total_ranks)
                  % Cube_total_ranks),
              3)
    ELSE IF Tile_on_tile_bottom(rank)
           THEN Offset(-Tile_total_ranks, TRUE)
           ELSE InFace

Cube_edge_branch(boundary_type, rank) ==
  CASE boundary_type = WEST -> Cube_left_edge(rank)
    [] boundary_type = EAST -> Cube_right_edge(rank)
    [] boundary_type = NORTH -> Cube_top_edge(rank)
    [] boundary_type = SOUTH -> Cube_bottom_edge(rank)

\* the loop that builds one descriptor per to_rank of a rotated seam
seam_list(cache, boundary_type, rank, to_ranks, rotations) ==
  IF to_ranks.exc # "" THEN Outcome(cache, "error", to_ranks.exc, << >>)
  ELSE Outcome(cache, "list", "",
         [n \in 1..Len(to_ranks.seq) |->
            Obj(NoCell, SimpleBoundary(boundary_type, rank,
                                       to_ranks.seq[n] % Cube_total_ranks,
                                       rotations))])

\* boundary_list.append(self.tile.boundary(boundary_type, rank)), b being
\* what the face partitioner handed out
tile_list(b) == Outcome(b.cache, "list", "", <<b.obj>>)

above_total(v) == v > Cube_total_ranks

below_zero(v) == v < 0

\* if to_rank > total_ranks (or < 0): to_rank = to_rank % total_ranks
reduce_list(s, below) ==
  IF (IF below THEN below_zero(s.obj.val.to_rank)
      ELSE above_total(s.obj.val.to_rank))
    THEN tile_list(set_to_rank(s.cache, s.obj,
                               s.obj.val.to_rank % Cube_total_ranks))
    ELSE tile_list(s)

\* boundary_list[0].to_rank += offset, then the conditional reduction
offset_list(b, offset, below) ==
  reduce_list(set_to_rank(b.cache, b.obj, b.obj.val.to_rank + offset), below)

\* an edge method run to its return for the branch it takes
run_edge(cache, boundary_type, rank, branch) ==
  IF branch.kind = "seam"
    THEN seam_list(cache, boundary_type, rank, branch.to_ranks,
                   branch.rotations)
  ELSE IF branch.kind = "offset"
    THEN offset_list(Tile_boundary(cache, boundary_type, rank),
                     branch.offset, branch.below)
  ELSE tile_list(Tile_boundary(cache, boundary_type, rank))

\* the cube edge lookup: _left_edge, _right_edge, _top_edge, _bottom_edge
Cube_edge(cache, boundary_type, rank) ==
  run_edge(cache, boundary_type, rank, Cube_edge_branch(boundary_type, rank))

\* edge_1.to_rank, read off what edge_func_1 returned: the edge methods
\* return lists, and a list has no attribute to_rank
to_rank_of(edge_1) ==
  IF edge_1.kind = "error" THEN edge_1
  ELSE Outcome(edge_1.cache, "error", "AttributeError", << >>)

\* CubedSpherePartitioner._get_corner: AttributeError is raised before
\* edge_func_2 is ever called
Cube_get_corner(cache, boundary_type, rank, edge_func_1, edge_func_2) ==
  to_rank_of(Cube_edge(cache, edge_func_1, rank))

\* What a corner method decides for a rank: none when the rank is on both
\* face edges, else the two edge methods it passes to _get_corner.
CornerPlan(none, edge_func_1, edge_func_2) ==
  [none |-> none, edge_func_1 |-> edge_func_1, edge_func_2 |-> edge_func_2]

Cube_top_left_corner(rank) ==
  IF Tile_on_tile_top(rank) /\ Tile_on_tile_left(rank)
    THEN CornerPlan(TRUE, WEST, WEST)
    ELSE IF is_even(Cube_tile_index(rank))
            /\ on_tile_left(Tile_subtile_index(rank))
           THEN CornerPlan(FALSE, WEST, WEST)
           ELSE CornerPlan(FALSE, WEST, NORTH)

Cube_top_right_corner(rank) ==
  IF on_tile_top(Tile_subtile_index(rank), layout)
     /\ on_tile_right(Tile_subtile_index(rank), layout)
    THEN CornerPlan(TRUE, NORTH, NORTH)
    ELSE IF is_even(Cube_tile_index(rank))
            /\ on_tile_top(Tile_subtile_index(rank), layout)
           THEN CornerPlan(FALSE, NORTH, SOUTH)
           ELSE CornerPlan(FALSE, NORTH, EAST)

\* _bottom_left_corner with "or" for "and" in the test for the face corner
Cube_bottom_left_corner_either_edge(rank) ==
  IF on_tile_bottom(Tile_subtile_index(rank))
     \/ on_tile_left(Tile_subtile_index(rank))
    THEN CornerPlan(TRUE, SOUTH, SOUTH)
    ELSE CornerPlan(FALSE, SOUTH, WEST)

Cube_bottom_left_corner(rank) ==
  IF on_tile_bottom(Tile_subtile_index(rank))
     /\ on_tile_left(Tile_subtile_index(rank))
    THEN CornerPlan(TRUE, SOUTH, SOUTH)
    ELSE IF ~is_even(Cube_tile_index(rank))
            /\ on_tile_bottom(Tile_subtile_index(rank))
           THEN CornerPlan(FALSE, SOUTH, NORTH)
           ELSE CornerPlan(FALSE, SOUTH, WEST)

Cube_bottom_right_corner(rank) ==
  IF on_tile_bottom(Tile_subtile_index(rank))
     /\ on_tile_right(Tile_subtile_index(rank), layout)
    THEN CornerPlan(TRUE, SOUTH, SOUTH)
    ELSE IF ~is_even(Cube_tile_index(rank))
            /\ on_tile_bottom(Tile_subtile_index(rank))
           THEN CornerPlan(FALSE, SOUTH, SOUTH)
           ELSE CornerPlan(FALSE, SOUTH, EAST)

Cube_corner_plan(boundary_type, rank) ==
  CASE boundary_type = NORTHWEST -> Cube_top_left_corner(rank)
    [] boundary_type = NORTHEAST -> Cube_top_right_corner(rank)
    [] boundary_type = SOUTHWEST -> Cube_bottom_left_corner(rank)
    [] boundary_type = SOUTHEAST -> Cube_bottom_right_corner(rank)

\* a corner method run to its return for what it decided
run_corner(cache, boundary_type, rank, plan) ==
  IF plan.none THEN Outcome(cache, "none", "", << >>)
  ELSE Cube_get_corner(cache, boundary_type, rank, plan.edge_func_1,
                       plan.edge_func_2)

\* the dictionary dispatch at the head of CubedSpherePartitioner._cached_boundary
Cube_dispatch(cache, boundary_type, rank) ==
  IF boundary_type \in EdgeTypes THEN Cube_edge(cache, boundary_type, rank)
  ELSE run_corner(cache, boundary_type, rank,
                  Cube_corner_plan(boundary_type, rank))

\* _cached_boundary after the dispatch returned or raised (miss).  A result
\* that is not None is a list here, and boundary.to_rank on a list raises
\* AttributeError; lru_cache stores nothing when the body raises.
Cube_cache_miss(ccache, key, miss) ==
  IF miss.kind = "error" THEN [out |-> miss, ccache |-> ccache]
  ELSE IF miss.kind = "none"
    THEN [out |-> miss, ccache |-> (key :> "none") @@ ccache]
  ELSE [out |-> Outcome(miss.cache, "error", "AttributeError", << >>),
        ccache |-> ccache]

\* lru_cache around the dispatch and the modulo that follows it;
\* ccache is this partitioner's own memo table, cache the tile's
Cube_cached_boundary(cache, ccache, boundary_type, rank) ==
  IF <<boundary_type, rank>> \in DOMAIN ccache
    THEN [out |-> Outcome(cache, ccache[<<boundary_type, rank>>], "", << >>),
          ccache |-> ccache]
    ELSE Cube_cache_miss(ccache, <<boundary_type, rank>>,
                         Cube_dispatch(cache, boundary_type, rank))

\* CubedSpherePartitioner.boundary: copy.copy of what _cached_boundary gave
\* (copy.copy(None) is None)
Cube_boundary(cache, ccache, boundary_type, rank) ==
  Cube_cached_boundary(cache, ccache, boundary_type, rank)

(* ------------------------------ region slicer -------------------------- *)
X_DIMS == {"x", "x_interface"}

Y_DIMS == {"y", "y_interface"}

INTERFACE_DIMS == {"x_interface", "y_interface"}

\* utils.list_by_dims: the (y, x) pair spread over the dimension list
list_by_dims(dims, horizontal_list, non_horizontal_value) ==
  [n \in 1..Len(dims) |->
     IF dims[n] \in Y_DIMS THEN horizontal_list[1]
     ELSE IF dims[n] \in X_DIMS THEN horizontal_list[2]
     ELSE non_horizontal_value]

\* extent_from_metadata with layout_factors = 1 / layout:
\* int((extent + add_extent) * (1 / n) - add_extent).  For extent + add_extent
\* >= 0 and the layouts modelled the double product truncates to the integer
\* quotient.
rank_extent_from_tile_metadata(dims, tile_extent, lay) ==
  LET n_ranks == list_by_dims(dims, lay, 1)
      add_extent(dim) == IF dim \in INTERFACE_DIMS THEN -1 ELSE 0
  IN  [n \in 1..Len(dims) |->
         ((tile_extent[n] + add_extent(dims[n])) \div n_ranks[n])
           - add_extent(dims[n])]

\* extent_from_metadata with layout_factors = layout
tile_extent_from_rank_metadata(dims, rank_extent, lay) ==
  LET factor == list_by_dims(dims, lay, 1)
      add_extent(dim) == IF dim \in INTERFACE_DIMS THEN -1 ELSE 0
  IN  [n \in 1..Len(dims) |->
         ((rank_extent[n] + add_extent(dims[n])) * factor[n])
           - add_extent(dims[n])]

IndexData1D(dim, extent, i_subtile, n_ranks) ==
  [dim |-> dim, extent |-> extent, i_subtile |-> i_subtile, n_ranks |-> n_ranks]

extent_minus_gridcell_count(index) ==
  IF index.dim \in INTERFACE_DIMS THEN 1 ELSE 0

\* base_extent that keeps the interface grid line
base_extent_with_interface(index) == index.extent

base_extent(index) == index.extent - extent_minus_gridcell_count(index)

is_end_index(index) == index.i_subtile = index.n_ranks - 1

index_generator(dims, tile_extent, si, horizontal_layout) ==
  LET subtile_extent ==
        rank_extent_from_tile_metadata(dims, tile_extent, horizontal_layout)
      quantity_layout == list_by_dims(dims, horizontal_layout, 1)
      quantity_subtile_index == list_by_dims(dims, si, 0)
  IN  [n \in 1..Len(dims) |->
         IndexData1D(dims[n], subtile_extent[n], quantity_subtile_index[n],
                     quantity_layout[n])]

\* one <<start, end>> pair (the half-open slice(start, end)) per dimension
subtile_slice(dims, global_extent, lay, si, overlap) ==
  LET gen == index_generator(dims, global_extent, si, lay)
      start(index) == index.i_subtile * base_extent(index)
      end(index) ==
        IF is_end_index(index) \/ overlap
          THEN start(index) + index.extent
          ELSE start(index) + base_extent(index)
  IN  [n \in 1..Len(gen) |-> <<start(gen[n]), end(gen[n])>>]

Tile_subtile_slice(rank, global_dims, global_extent, overlap) ==
  subtile_slice(global_dims, global_extent, layout, Tile_subtile_index(rank),
                overlap)

(* ------------------------------ the program ---------------------------- *)
Layouts(n) == (1..n) \X (1..n)

Ranks == 0..(Cube_total_ranks - 1)

TileRanks == 0..(Tile_total_ranks - 1)

DimLists == {<<y, x>> : y \in Y_DIMS, x \in X_DIMS}

Extents == (1..MaxExtent) \X (1..MaxExtent)

NoCall == [api |-> "none", boundary_type |-> "", rank |-> 0,
           dims |-> << >>, extent |-> << >>, overlap |-> FALSE,
           total_ranks |-> 0, n_clockwise_rotations |-> 0]

BoundaryCall(api, boundary_type, rank) ==
  [NoCall EXCEPT !.api = api, !.boundary_type = boundary_type, !.rank = rank]

\* what the caller sees of an outcome: the kind, the exception, the values
Seen(kind, exc, items) == [kind |-> kind, exc |-> exc, items |-> items]

Values(objs) == [n \in 1..Len(objs) |-> objs[n].val]

\* the partitioners right after construction
InitWith(lay) ==
  /\ layout = lay
  /\ tileCache = << >>
  /\ cubeCache = << >>
  /\ call = NoCall
  /\ returned = Seen("none", "", << >>)
  /\ held = << >>
  /\ ncalls = 0
  /\ wrote = NoCall

\* the caller receives outcome r of a boundary query
Return(api, boundary_type, rank, r) ==
  /\ tileCache' = r.cache
  /\ call' = BoundaryCall(api, boundary_type, rank)
  /\ returned' = Seen(r.kind, r.exc, Values(r.items))
  /\ held' = r.items
  /\ ncalls' = ncalls + 1
  /\ UNCHANGED <<layout, wrote>>

\* a face partitioner's boundary() always hands out one descriptor
handed(b) == Outcome(b.cache, "boundary", "", <<b.obj>>)

\* TilePartitioner.boundary(boundary_type, rank)
TileBoundaryDo(boundary_type, rank) ==
  /\ Return("tile.boundary", boundary_type, rank,
            handed(Tile_boundary(tileCache, boundary_type, rank)))
  /\ UNCHANGED cubeCache

\* the cube partitioner's memo table after its boundary() returned r
CubeReturn(boundary_type, rank, r) ==
  /\ Return("cube.boundary", boundary_type, rank, r.out)
  /\ cubeCache' = r.ccache

\* CubedSpherePartitioner.boundary(boundary_type, rank)
CubeBoundaryDo(boundary_type, rank) ==
  CubeReturn(boundary_type, rank,
             Cube_boundary(tileCache, cubeCache, boundary_type, rank))

\* the cube edge lookup: _left_edge, _right_edge, _top_edge, _bottom_edge
CubeEdgeDo(boundary_type, rank) ==
  /\ Return("cube.edge", boundary_type, rank,
            Cube_edge(tileCache, boundary_type, rank))
  /\ UNCHANGED cubeCache

\* TilePartitioner.subtile_slice(rank, dims, extent, overlap)
SubtileSliceDo(rank, dims, extent, overlap) ==
  /\ call' = [NoCall EXCEPT !.api = "tile.subtile_slice", !.rank = rank,
                            !.dims = dims, !.extent = extent,
                            !.overlap = overlap]
  /\ returned' = Seen("slice", "",
                      Tile_subtile_slice(rank, dims, extent, overlap))
  /\ held' = << >>
  /\ ncalls' = ncalls + 1
  /\ UNCHANGED <<layout, tileCache, cubeCache, wrote>>

\* self.tile.subtile_index(rank), as the cube partitioner calls it
SubtileIndexDo(rank) ==
  /\ call' = [NoCall EXCEPT !.api = "tile.subtile_index", !.rank = rank]
  /\ returned' = Seen("index", "", Tile_subtile_index(rank))
  /\ held' = << >>
  /\ ncalls' = ncalls + 1
  /\ UNCHANGED <<layout, tileCache, cubeCache, wrote>>

\* the caller writes to a field of descriptor n of what it was handed
WriteDo(n, field) ==
  LET o == held[n]
      s == IF field = "to_rank"
             THEN set_to_rank(tileCache, o, o.val.to_rank + Tile_total_ranks)
             ELSE set_rotations(tileCache, o,
                                (o.val.n_clockwise_rotations + 1) % 4)
  IN  /\ tileCache' = s.cache
      /\ held' = [held EXCEPT ![n] = s.obj]
      /\ wrote' = call
      /\ UNCHANGED <<layout, cubeCache, call, returned, ncalls>>

\* TilePartitioner.on_tile_left / on_tile_right / on_tile_top /
\* on_tile_bottom(rank), named by the direction of the edge
OnTileDo(boundary_type, rank) ==
  /\ call' = BoundaryCall("tile.on_tile", boundary_type, rank)
  /\ returned' = Seen("bool", "", <<OnEdge(boundary_type, rank)>>)
  /\ held' = << >>
  /\ ncalls' = ncalls + 1
  /\ UNCHANGED <<layout, tileCache, cubeCache, wrote>>

\* the caller receives what a module-level function handed back
ReturnValue(c, r) ==
  /\ call' = c
  /\ returned' = IF r.exc # "" THEN Seen("error", r.exc, << >>)
                 ELSE Seen("value", "", <<r.value>>)
  /\ held' = << >>
  /\ ncalls' = ncalls + 1
  /\ UNCHANGED <<layout, tileCache, cubeCache, wrote>>

\* get_tile_index(rank, total_ranks)
GetTileIndexDo(rank, total_ranks) ==
  ReturnValue([NoCall EXCEPT !.api = "get_tile_index", !.rank = rank,
                             !.total_ranks = total_ranks],
              IF get_tile_index_raises(total_ranks) THEN Raises("ValueError")
              ELSE Value(get_tile_index(rank, total_ranks)))

\* TilePartitioner.rotate_rank(rank, n_clockwise_rotations), which is
\* rotate_subtile_rank(rank, self.layout, n_clockwise_rotations)
RotateRankDo(rank, n_clockwise_rotations) ==
  ReturnValue([NoCall EXCEPT !.api = "rotate_subtile_rank", !.rank = rank,
                 !.n_clockwise_rotations = n_clockwise_rotations],
              rotate_subtile_rank(rank, layout, n_clockwise_rotations))

\* TilePartitioner.fliplr_rank(rank), which is
\* fliplr_subtile_rank(rank, self.layout)
FliplrRankDo(rank) ==
  ReturnValue([NoCall EXCEPT !.api = "fliplr_subtile_rank", !.rank = rank],
              fliplr_subtile_rank(rank, layout))

(* One call on freshly constructed partitioners, for every layout and input *)
Init == \E lay \in Layouts(MaxLayout) : InitWith(lay)

TileBoundary ==
  /\ ncalls = 0
  /\ \E bt \in BoundaryTypes, rank \in Ranks : TileBoundaryDo(bt, rank)

CubeBoundary ==
  /\ ncalls = 0
  /\ \E bt \in BoundaryTypes, rank \in Ranks : CubeBoundaryDo(bt, rank)

CubeEdge ==
  /\ ncalls = 0
  /\ \E bt \in EdgeTypes, rank \in Ranks : CubeEdgeDo(bt, rank)

SubtileSlice ==
  /\ ncalls = 0
  /\ \E rank \in TileRanks, dims \in DimLists, extent \in Extents,
        overlap \in BOOLEAN : SubtileSliceDo(rank, dims, extent, overlap)

SubtileIndex ==
  /\ ncalls = 0
  /\ \E rank \in Ranks : SubtileIndexDo(rank)

OnTile ==
  /\ ncalls = 0
  /\ \E bt \in EdgeTypes, rank \in Ranks : OnTileDo(bt, rank)

GetTileIndex ==
  /\ ncalls = 0
  /\ \E total_ranks \in 1..MaxTotalRanks, rank \in 0..MaxTotalRanks :
       GetTileIndexDo(rank, total_ranks)

RotateRank ==
  /\ ncalls = 0
  /\ \E rank \in TileRanks, n \in (-1)..MaxRotations : RotateRankDo(rank, n)

FliplrRank ==
  /\ ncalls = 0
  /\ \E rank \in TileRanks : FliplrRankDo(rank)

Next ==
  \/ TileBoundary
  \/ CubeBoundary
  \/ CubeEdge
  \/ SubtileSlice
  \/ SubtileIndex
  \/ OnTile
  \/ GetTileIndex
  \/ RotateRank
  \/ FliplrRank

Spec == Init /\ [][Next]_vars

(* Sequences of boundary queries with the caller writing to what it holds *)
CacheRanks == {r \in Ranks : r <= CacheMaxRank}

InitCache == \E lay \in Layouts(CacheMaxLayout) : InitWith(lay)

TileBoundaryQuery ==
  /\ ncalls < MaxQueries
  /\ \E bt \in BoundaryTypes, rank \in CacheRanks : TileBoundaryDo(bt, rank)

CubeBoundaryQuery ==
  /\ ncalls < MaxQueries
  /\ \E bt \in BoundaryTypes, rank \in CacheRanks : CubeBoundaryDo(bt, rank)

CubeEdgeQuery ==
  /\ ncalls < MaxQueries
  /\ \E bt \in EdgeTypes, rank \in CacheRanks : CubeEdgeDo(bt, rank)

CallerWrite ==
  /\ Values(held) = returned.items     \* at most one write per object handed out
  /\ \E n \in 1..Len(held), field \in {"to_rank", "n_clockwise_rotations"} :
       WriteDo(n, field)

NextCache == TileBoundaryQuery \/ CubeBoundaryQuery \/ CubeEdgeQuery \/ CallerWrite

SpecCache == InitCache /\ [][NextCache]_vars

(* ------------------------------- properties ---------------------------- *)
\* what the caller sees of a boundary call made on cold caches
ColdTileBoundary(boundary_type, rank) ==
  Seen("boundary", "", <<Tile_boundary(<< >>, boundary_type, rank).obj.val>>)

ColdCubeBoundary(boundary_type, rank) ==
  LET r == Cube_boundary(<< >>, << >>, boundary_type, rank)
  IN  Seen(r.out.kind, r.out.exc, Values(r.out.items))

ColdCubeEdge(boundary_type, rank) ==
  LET r == Cube_edge(<< >>, boundary_type, rank)
  IN  Seen(r.kind, r.exc, Values(r.items))

\* C1: whatever boundary queries and in-place writes (the caller's, and the
\* cube partitioner's own face offset on what the face partitioner gave it)
\* came before, a boundary query returns what a cold-cache query returns,
\* no object handed out is the cached object, and every memo entry still
\* holds the value it was computed with.
C1_CacheIsolation ==
  /\ \A key \in DOMAIN tileCache : tileCache[key] = Tile_dispatch(key[1], key[2])
  /\ \A n \in 1..Len(held) : held[n].cell = NoCell
  /\ call.api = "tile.boundary"
       => returned = ColdTileBoundary(call.boundary_type, call.rank)
  /\ call.api = "cube.boundary"
       => returned = ColdCubeBoundary(call.boundary_type, call.rank)
  /\ call.api = "cube.edge"
       => returned = ColdCubeEdge(call.boundary_type, call.rank)

\* a face-partitioner query answered from the memo table after the caller
\* wrote to the descriptor the same query had handed out before
C1_Witness ==
  /\ ncalls = 2
  /\ call.api = "tile.boundary"
  /\ wrote = call
  /\ Values(held) = returned.items
  /\ DOMAIN tileCache = {<<call.boundary_type, call.rank>>}

\* the direction across: WEST <-> EAST, NORTH <-> SOUTH
Opposite(boundary_type) ==
  CASE boundary_type = WEST -> EAST
    [] boundary_type = EAST -> WEST
    [] boundary_type = NORTH -> SOUTH
    [] boundary_type = SOUTH -> NORTH

\* rank is a rank of the cube and the cold edge lookup from t along
\* boundary_type returns descriptors, one of them with target rank
Includes(boundary_type, t, rank) ==
  /\ t \in Ranks
  /\ ColdCubeEdge(boundary_type, t).kind = "list"
  /\ \E m \in 1..Len(ColdCubeEdge(boundary_type, t).items) :
       ColdCubeEdge(boundary_type, t).items[m].to_rank = rank

\* C2: for every target t the cube edge lookup returns from a rank, the
\* lookup from t along the opposite direction has the rank among its
\* targets.  Stated for the targets reached without rotation, where the
\* opposite direction is the way back across the seam.
C2_EdgeSymmetry ==
  call.api = "cube.edge" =>
    \A n \in 1..Len(returned.items) :
      returned.items[n].n_clockwise_rotations = 0 =>
        Includes(Opposite(call.boundary_type), returned.items[n].to_rank,
                 call.rank)

\* C3: the cube edge lookup returns at least one descriptor, for every
\* layout, rank and edge direction.
C3_EdgeNonEmpty ==
  call.api = "cube.edge" =>
    returned.kind = "list" /\ Len(returned.items) >= 1

\* C4: every target of every descriptor of a cube edge lookup lies in
\* [0, totalRanks).
C4_TargetsReduced ==
  call.api = "cube.edge" =>
    \A n \in 1..Len(returned.items) : returned.items[n].to_rank \in Ranks

\* C5: CubedSpherePartitioner.boundary completes for every layout, rank and
\* direction: it yields descriptors or the no-neighbor result, never an error.
C5_BoundaryTotal ==
  call.api = "cube.boundary" => returned.kind # "error"

\* the face adjacency table: the face across the edge of face f
TableFace(boundary_type, f) ==
  CASE boundary_type = WEST -> IF is_even(f) THEN (f - 2) % 6 ELSE f - 1
    [] boundary_type = EAST -> IF is_even(f) THEN f + 1 ELSE (f + 2) % 6
    [] boundary_type = NORTH -> IF is_even(f) THEN (f + 2) % 6 ELSE (f + 1) % 6
    [] boundary_type = SOUTH -> IF is_even(f) THEN (f - 1) % 6 ELSE (f + 4) % 6

\* the face adjacency table: the rotation count across the edge of face f
TableRotations(boundary_type, f) ==
  CASE boundary_type = WEST -> IF is_even(f) THEN 1 ELSE 0
    [] boundary_type = EAST -> IF is_even(f) THEN 0 ELSE 1
    [] boundary_type = NORTH -> IF is_even(f) THEN 3 ELSE 0
    [] boundary_type = SOUTH -> IF is_even(f) THEN 0 ELSE 3

CornerRank(boundary_type, f) ==
  f * Tile_total_ranks +
    (CASE boundary_type = SOUTHWEST -> 0
       [] boundary_type = SOUTHEAST -> L0 - 1
       [] boundary_type = NORTHWEST -> L0 * (L0 - 1)
       [] boundary_type = NORTHEAST -> L0 * L0 - 1)

\* C7: in a square layout n x n with n >= 2, CubedSpherePartitioner.boundary
\* along a diagonal gives the no-neighbor result for exactly one rank of each
\* face: the rank on both face edges that meet at that diagonal.
C7_CornerAbsence ==
  (/\ call.api = "cube.boundary"
   /\ call.boundary_type \in CornerTypes
   /\ L0 = L1
   /\ L0 >= 2) =>
    (returned.kind = "none"
       <=> call.rank = CornerRank(call.boundary_type,
                                  Cube_tile_index(call.rank)))

\* the spec's example: SOUTHWEST of rank 0 in layout (2,2) is no-neighbor
C7_Witness ==
  /\ layout = <<2, 2>>
  /\ call.api = "cube.boundary"
  /\ call.boundary_type = SOUTHWEST
  /\ call.rank = 0
  /\ returned.kind = "none"

\* the indices of the half-open slice(start, end)
Range(sl) == sl[1]..(sl[2] - 1)

\* the ranks of the face whose overlap=False slice holds the cell
Owners(dims, extent, cell) ==
  {r \in TileRanks :
     \A n \in 1..Len(dims) :
       cell[n] \in Range(Tile_subtile_slice(r, dims, extent, FALSE)[n])}

\* the layout divides the face extent evenly along each dimension
EvenlyDivided(dims, extent) ==
  tile_extent_from_rank_metadata(
    dims, rank_extent_from_tile_metadata(dims, extent, layout), layout) = extent

\* C8: the overlap=False slices of the ranks of one face cover every index
\* of the face extent exactly once; the last grid line of an interface
\* dimension is then owned by one rank only.  Stated for the face extents
\* the layout divides evenly.
C8_PartitionOfUnity ==
  (/\ call.api = "tile.subtile_slice"
   /\ ~call.overlap
   /\ EvenlyDivided(call.dims, call.extent)) =>
    \A y \in 0..(call.extent[1] - 1), x \in 0..(call.extent[2] - 1) :
      Cardinality(Owners(call.dims, call.extent, <<y, x>>)) = 1

\* the subtile position of a rank along the axis of a dimension
Position(rank, dim) ==
  list_by_dims(<<dim>>, Tile_subtile_index(rank), 0)[1]

\* C9: with overlap=True, the slice ranges of two ranks whose subtile
\* positions are adjacent along an axis share exactly one index along that
\* axis, the first of the higher rank's range, when the dimension is an
\* interface dimension, and share none when it is a center dimension.
C9_OverlapLaw ==
  (call.api = "tile.subtile_slice" /\ call.overlap) =>
    \A other \in TileRanks, n \in 1..Len(call.dims) :
      Position(other, call.dims[n]) = Position(call.rank, call.dims[n]) + 1 =>
        Range(returned.items[n])
          \cap Range(Tile_subtile_slice(other, call.dims, call.extent, TRUE)[n])
          = IF call.dims[n] \in INTERFACE_DIMS
              THEN {Tile_subtile_slice(other, call.dims, call.extent,
                                       TRUE)[n][1]}
              ELSE {}

\* rank 0 of layout (2,2) and its neighbour along x share one grid line of
\* an x_interface dimension
C9_Witness ==
  /\ layout = <<2, 2>>
  /\ call.api = "tile.subtile_slice"
  /\ call.overlap
  /\ call.rank = 0
  /\ call.dims[2] = "x_interface"
  /\ call.extent[2] = 3
  /\ Position(1, "x_interface") = 1
  /\ Range(returned.items[2])
       \cap Range(Tile_subtile_slice(1, call.dims, call.extent, TRUE)[2]) = {1}

\* C10: a rank is its face index times rows*columns, plus y times columns,
\* plus x, with (y, x) the first two components of subtile_index and the
\* layout read as (rows, columns).
C10_RoundTrip ==
  call.api = "tile.subtile_index" =>
    call.rank = Cube_tile_index(call.rank) * (L0 * L1)
                  + returned.items[1] * L1 + returned.items[2]

\* the face edge tests read off the canonical position of a rank, the layout
\* being (rows, columns): row = withinFace / columns, column = withinFace
\* mod columns
CanonicalOnEdge(boundary_type, rank) ==
  CASE boundary_type = WEST -> (rank % (L0 * L1)) % L1 = 0
    [] boundary_type = EAST -> (rank % (L0 * L1)) % L1 = L1 - 1
    [] boundary_type = SOUTH -> (rank % (L0 * L1)) \div L1 = 0
    [] boundary_type = NORTH -> (rank % (L0 * L1)) \div L1 = L0 - 1

\* C11: on_tile_left holds exactly when column = 0, on_tile_right when
\* column = columns - 1, on_tile_bottom when row = 0 and on_tile_top when
\* row = rows - 1, for every layout (rows, columns) and every rank.
C11_EdgeTests ==
  call.api = "tile.on_tile" =>
    returned.items[1] = CanonicalOnEdge(call.boundary_type, call.rank)

\* the step a direction takes along the columns and along the rows
StepX(boundary_type) ==
  IF boundary_type \in {WEST, NORTHWEST, SOUTHWEST} THEN -1
  ELSE IF boundary_type \in {EAST, NORTHEAST, SOUTHEAST} THEN 1 ELSE 0

StepY(boundary_type) ==
  IF boundary_type \in {NORTH, NORTHWEST, NORTHEAST} THEN 1
  ELSE IF boundary_type \in {SOUTH, SOUTHWEST, SOUTHEAST} THEN -1 ELSE 0

\* the neighbour of a rank on its own face taken as a doubly-periodic
\* rows x columns grid: one step along each axis the direction names,
\* wrapping from a face edge to the opposite one
TorusNeighbour(boundary_type, rank) ==
  (rank \div (L0 * L1)) * (L0 * L1)
    + ((((rank % (L0 * L1)) \div L1) + StepY(boundary_type)) % L0) * L1
    + ((((rank % (L0 * L1)) % L1) + StepX(boundary_type)) % L1)

\* C12: TilePartitioner.boundary returns, for every layout, rank and
\* direction, a descriptor from the rank with rotation count 0 whose target
\* is on the rank's own face: across a face edge the opposite edge of the
\* face, else the immediate neighbour, and for a diagonal the vertical
\* neighbour of the horizontal neighbour.
C12_TileTorus ==
  call.api = "tile.boundary" =>
    /\ returned.kind = "boundary"
    /\ returned.items[1].from_rank = call.rank
    /\ returned.items[1].n_clockwise_rotations = 0
    /\ returned.items[1].to_rank \div (L0 * L1) = call.rank \div (L0 * L1)
    /\ returned.items[1].to_rank = TorusNeighbour(call.boundary_type, call.rank)

\* the edge of the rank's face that the direction crosses is a rotated seam:
\* WEST and NORTH of an even face, EAST and SOUTH of an odd face
RotatedSeam(boundary_type, rank) ==
  /\ OnEdge(boundary_type, rank)
  /\ is_even(Cube_tile_index(rank)) <=> boundary_type \in {WEST, NORTH}

\* the direction in which the neighbour face looks back across a rotated seam
Paired(boundary_type) ==
  CASE boundary_type = WEST -> NORTH
    [] boundary_type = NORTH -> WEST
    [] boundary_type = EAST -> SOUTH
    [] boundary_type = SOUTH -> EAST

FaceRanks(f) == (f * Tile_total_ranks)..((f + 1) * Tile_total_ranks - 1)

\* the ranks of the rank's face on the edge the direction crosses
SourceEdge(boundary_type, rank) ==
  {r \in FaceRanks(Cube_tile_index(rank)) : OnEdge(boundary_type, r)}

\* the ranks of the neighbour face on the edge that meets the rotated seam
NeighbourEdge(boundary_type, rank) ==
  {t \in FaceRanks(TableFace(boundary_type, Cube_tile_index(rank))) :
     OnEdge(Paired(boundary_type), t)}

\* the targets of a cold cube edge lookup
Targets(boundary_type, rank) ==
  {ColdCubeEdge(boundary_type, rank).items[n].to_rank :
     n \in 1..Len(ColdCubeEdge(boundary_type, rank).items)}

\* the targets of all lookups from the ranks of the source edge
SeamTargets(boundary_type, rank) ==
  UNION {Targets(boundary_type, r) : r \in SourceEdge(boundary_type, rank)}

\* a lookup in layout (4,2) across a rotated seam from an edge of 4 ranks
\* that meets an edge of 2 ranks
FanOut42 ==
  /\ layout = <<4, 2>>
  /\ call.api = "cube.edge"
  /\ RotatedSeam(call.boundary_type, call.rank)
  /\ Cardinality(SourceEdge(call.boundary_type, call.rank)) = 4
  /\ Cardinality(NeighbourEdge(call.boundary_type, call.rank)) = 2

\* C13 as stated: in layout (4,2) the lookup from each of the 4 ranks of such
\* a source edge returns exactly 2 targets and the four lookups together
\* reach exactly the ranks of the neighbour face's matching edge.
C13_FanOut42_TwoEach ==
  FanOut42 =>
    /\ returned.kind = "list"
    /\ Len(returned.items) = 2
    /\ SeamTargets(call.boundary_type, call.rank)
         = NeighbourEdge(call.boundary_type, call.rank)

\* C13 amended: in layout (4,2) the lookup from each of the 4 ranks of such
\* a source edge returns exactly 1 target, a rank of the neighbour face's
\* matching edge, and the four lookups together reach exactly the 2 ranks
\* of that edge.
C13_FanOut42 ==
  FanOut42 =>
    /\ returned.kind = "list"
    /\ Len(returned.items) = 1
    /\ returned.items[1].to_rank
         \in NeighbourEdge(call.boundary_type, call.rank)
    /\ SeamTargets(call.boundary_type, call.rank)
         = NeighbourEdge(call.boundary_type, call.rank)

\* NORTH from rank 4, on the 4-rank top edge of face 0, reaches rank 20 on
\* the 2-rank west edge of face 2
C13_Witness ==
  /\ FanOut42
  /\ call.boundary_type = NORTH
  /\ call.rank = 4
  /\ Values(held) = <<SimpleBoundary(NORTH, 4, 20, 3)>>

\* C14: get_tile_index(rank, totalRanks) fails with ValueError exactly when
\* totalRanks is not divisible by 6; otherwise it returns
\* rank / (totalRanks / 6), which for a rank in [0, totalRanks) lies in
\* [0, 5] and is not below the face index of the rank before it.
C14_TileIndex ==
  call.api = "get_tile_index" =>
    /\ returned.kind = "error" <=> call.total_ranks % 6 # 0
    /\ returned.kind = "error" => returned.exc = "ValueError"
    /\ returned.kind # "error" =>
         /\ returned.items = <<call.rank \div (call.total_ranks \div 6)>>
         /\ call.rank < call.total_ranks =>
              /\ returned.items[1] \in 0..5
              /\ call.rank >= 1 =>
                   get_tile_index(call.rank - 1, call.total_ranks)
                     <= returned.items[1]

\* the last rank of 12 is on face 5
C14_Witness ==
  /\ call.api = "get_tile_index"
  /\ call.total_ranks = 12
  /\ call.rank = 11
  /\ returned = Seen("value", "", <<5>>)

\* C15 as stated: rotate_subtile_rank raises NotImplementedError for every
\* rotation count other than one clockwise quarter turn.
C15_RotateRaisesUnlessOne ==
  (call.api = "rotate_subtile_rank" /\ call.n_clockwise_rotations # 1) =>
    returned = Seen("error", "NotImplementedError", << >>)

\* C15 amended: rotate_subtile_rank raises NotImplementedError for every
\* rotation count other than 0 and 1, and for 0 it returns the rank itself.
C15_RotateRaises ==
  call.api = "rotate_subtile_rank" =>
    /\ call.n_clockwise_rotations \notin {0, 1} =>
         returned = Seen("error", "NotImplementedError", << >>)
    /\ call.n_clockwise_rotations = 0 =>
         returned = Seen("value", "", <<call.rank>>)

\* a full turn is asked for and refused
C15_Witness ==
  /\ call.api = "rotate_subtile_rank"
  /\ call.n_clockwise_rotations = 4
  /\ returned = Seen("error", "NotImplementedError", << >>)

\* the integer ratio of the neighbour edge's rank count to the source edge's
RankRatio(boundary_type, rank) ==
  Cardinality(NeighbourEdge(boundary_type, rank))
    \div Cardinality(SourceEdge(boundary_type, rank))

\* C16: when one of layout[0], layout[1] divides the other, the lookup from
\* every rank on a rotated seam edge returns max(1, r) targets, r being the
\* integer ratio of the neighbour edge's rank count to the source edge's.
C16_GroupSize ==
  (call.api = "cube.edge" /\ dividable
     /\ RotatedSeam(call.boundary_type, call.rank)) =>
    /\ returned.kind = "list"
    /\ Len(returned.items)
         = IF RankRatio(call.boundary_type, call.rank) > 1
             THEN RankRatio(call.boundary_type, call.rank) ELSE 1

\* the targets are neighbours of each other along the edge they lie on: no
\* rank of that edge between two of them is left out
ContiguousOn(targets, edge) ==
  /\ targets \subseteq edge
  /\ \A a \in targets : \A b \in targets : \A e \in edge :
       (a < e /\ e < b) => e \in targets

\* C17: for every layout and every rotated seam, the targets of the lookup
\* from a rank of the seam edge form a contiguous run of ranks along the
\* neighbour face's matching edge, and the runs of all the ranks of the
\* source edge together are exactly the ranks of that neighbour edge.
C17_Stitching ==
  (call.api = "cube.edge" /\ RotatedSeam(call.boundary_type, call.rank)) =>
    /\ returned.kind = "list"
    /\ ContiguousOn(Targets(call.boundary_type, call.rank),
                    NeighbourEdge(call.boundary_type, call.rank))
    /\ SeamTargets(call.boundary_type, call.rank)
         = NeighbourEdge(call.boundary_type, call.rank)

\* the rank is on both face edges that adjoin the diagonal
OnBothEdges(boundary_type, rank) ==
  /\ OnEdge(IF boundary_type \in {NORTHWEST, NORTHEAST} THEN NORTH ELSE SOUTH,
            rank)
  /\ OnEdge(IF boundary_type \in {NORTHWEST, SOUTHWEST} THEN WEST ELSE EAST,
            rank)

\* the descriptor is the second edge lookup, from the target of the first
\* edge lookup from the rank, with the two rotation counts added
ComposedOf(boundary, rank, edge_func_1, edge_func_2) ==
  \E m \in 1..Len(ColdCubeEdge(edge_func_1, rank).items) :
    LET edge_1 == ColdCubeEdge(edge_func_1, rank).items[m]
        second == ColdCubeEdge(edge_func_2, edge_1.to_rank % Cube_total_ranks)
    IN  \E n \in 1..Len(second.items) :
          /\ boundary.to_rank = second.items[n].to_rank
          /\ boundary.n_clockwise_rotations
               = edge_1.n_clockwise_rotations
                   + second.items[n].n_clockwise_rotations

\* C18: for every diagonal direction and every rank not on both face edges
\* adjoining it, CubedSpherePartitioner.boundary yields a descriptor from
\* the rank whose target is that of the second cube edge lookup applied to
\* the target of the first, and whose rotation count is the sum of the two
\* edges' rotation counts and lies in 0..3.
C18_CornerComposed ==
  (/\ call.api = "cube.boundary"
   /\ call.boundary_type \in CornerTypes
   /\ ~OnBothEdges(call.boundary_type, call.rank)) =>
    /\ returned.kind = "boundary"
    /\ returned.items[1].from_rank = call.rank
    /\ returned.items[1].n_clockwise_rotations \in 0..3
    /\ ComposedOf(returned.items[1], call.rank,
                  Cube_corner_plan(call.boundary_type, call.rank).edge_func_1,
                  Cube_corner_plan(call.boundary_type, call.rank).edge_func_2)

\* C19: for every rank not on the face edge of the queried direction, the
\* cube edge lookup yields exactly one descriptor, with rotation count 0,
\* whose target is the immediate neighbour of the rank on the rank's own
\* face.
C19_InFaceEdge ==
  (call.api = "cube.edge" /\ ~OnEdge(call.boundary_type, call.rank)) =>
    /\ returned.kind = "list"
    /\ Len(returned.items) = 1
    /\ returned.items[1].n_clockwise_rotations = 0
    /\ returned.items[1].from_rank = call.rank
    /\ returned.items[1].to_rank \div Tile_total_ranks
         = call.rank \div Tile_total_ranks
    /\ returned.items[1].to_rank
         = TorusNeighbour(call.boundary_type, call.rank)

\* the cold edge lookup from t along boundary_type returns a descriptor
\* whose target, taken modulo the number of ranks, is rank and whose
\* rotation count is n_clockwise_rotations
LooksBack(boundary_type, t, rank, n_clockwise_rotations) ==
  /\ ColdCubeEdge(boundary_type, t).kind = "list"
  /\ \E m \in 1..Len(ColdCubeEdge(boundary_type, t).items) :
       /\ ColdCubeEdge(boundary_type, t).items[m].to_rank % Cube_total_ranks
            = rank
       /\ ColdCubeEdge(boundary_type, t).items[m].n_clockwise_rotations
            = n_clockwise_rotations

\* the descriptor of an edge lookup from rank is answered from its target
PairedBack(boundary, rank) ==
  IF boundary.n_clockwise_rotations = 0
    THEN LooksBack(Opposite(boundary.boundary_type),
                   boundary.to_rank % Cube_total_ranks, rank, 0)
    ELSE LooksBack(Paired(boundary.boundary_type),
                   boundary.to_rank % Cube_total_ranks, rank,
                   4 - boundary.n_clockwise_rotations)

RECURSIVE Turned(_, _)
Turned(rank, n) ==
  IF n = 0 THEN Value(rank)
  ELSE IF Turned(rank, n - 1).exc # "" THEN Turned(rank, n - 1)
  ELSE rotate_subtile_rank(Turned(rank, n - 1).value, layout, 1)

\* C21: for every layout and every rank of a face,
\* rotate_subtile_rank(rank, layout, 1) and fliplr_subtile_rank(rank, layout)
\* each return a rank of the face, no other rank of the face is mapped to
\* the same result, fliplr applied to its own result gives the rank back,
\* and in a square layout four quarter turns give the rank back.
C21_Permutation ==
  /\ (call.api = "rotate_subtile_rank" /\ call.n_clockwise_rotations = 1) =>
       /\ returned.kind = "value"
       /\ returned.items[1] \in TileRanks
       /\ \A other \in TileRanks \ {call.rank} :
            rotate_subtile_rank(other, layout, 1) # Value(returned.items[1])
       /\ L0 = L1 => Turned(call.rank, 4) = Value(call.rank)
  /\ call.api = "fliplr_subtile_rank" =>
       /\ returned.kind = "value"
       /\ returned.items[1] \in TileRanks
       /\ \A other \in TileRanks \ {call.rank} :
            fliplr_subtile_rank(other, layout) # Value(returned.items[1])
       /\ fliplr_subtile_rank(returned.items[1], layout) = Value(call.rank)

====
